---------------------------- MODULE Spec2Model ----------------------------
(* A model of the nuts release server: the version catalog (class        *)
(* Versions, its helpers normalizeTag / extractChannel / normalizeVersion *)
(* / compareVersions) and the handlers of lib/nuts.js that use it.        *)
(*                                                                        *)
(* JavaScript strings are modelled as sequences of one-character strings, *)
(* so that split, slice and the semver grammar are computed and not       *)
(* assumed.  undefined and null are the one-element sequences Undefined   *)
(* and Null, which no string of single characters can equal.              *)
EXTENDS Integers, Sequences, FiniteSets, TLC

VARIABLES
    releases,       \* what backend.releases() resolves to (raw releases)
    tagNameFilter,  \* Versions.tagNameFilter
    call,           \* the call in progress on the Versions object and its outcome
    preFetch,       \* Nuts.opts.preFetch
    cache,          \* the cache of _.memoize(this._init): 0, or the promise it holds
    promises,       \* the promises the invocations of _init returned, in order
    backendInits,   \* how many times backend.init() was started
    callers,        \* the handlers that call this.init()
    req             \* the request a route handler is serving

nutsVars == <<preFetch, cache, promises, backendInits, callers, req>>

vars == <<releases, tagNameFilter, call, preFetch, cache, promises, backendInits,
          callers, req>>

(* ---------------------------------------------------------------------- *)
(* Bounds of the model                                                    *)
(* ---------------------------------------------------------------------- *)

\* the longest release list the backend returns in SpecList
MaxReleases == 3

(* ---------------------------------------------------------------------- *)
(* JavaScript values and string primitives                                *)
(* ---------------------------------------------------------------------- *)

Undefined == <<"undefined">>
Null == <<"null">>

\* truthiness of a string-or-undefined value: undefined, null and "" are falsy
Truthy(s) == s # Undefined /\ s # Null /\ s # <<>>

RECURSIVE SplitFrom(_, _, _, _, _)
SplitFrom(str, sep, i, cur, acc) ==
    IF i > Len(str) THEN Append(acc, cur)
    ELSE IF str[i] = sep
         THEN SplitFrom(str, sep, i + 1, <<>>, Append(acc, cur))
         ELSE SplitFrom(str, sep, i + 1, Append(cur, str[i]), acc)

\* String.prototype.split(sep) for a one-character separator
Split(str, sep) == SplitFrom(str, sep, 1, <<>>, <<>>)

\* String.prototype.slice(n) (0-based start)
Slice(str, n) == SubSeq(str, n + 1, Len(str))

\* whether sub occurs in str at (1-based) position i
OccursAt(str, sub, i) ==
    /\ i >= 1
    /\ i + Len(sub) - 1 <= Len(str)
    /\ SubSeq(str, i, i + Len(sub) - 1) = sub

\* positions at which sub occurs in str
Occurrences(str, sub) == {i \in 1..Len(str) : OccursAt(str, sub, i)}

SetMax(S) == CHOOSE x \in S : \A y \in S : y <= x


(* ---------------------------------------------------------------------- *)
(* Tag name filters: new RegExp(tagNameFilter)                            *)
(* ---------------------------------------------------------------------- *)

\* the filter of the comment on normalizeTag: text after the last "-v"
DashV == <<".*-v(?<version>.*)">>
\* a filter without a named group "version"
PrefixV == <<"^v">>

TagNameFilters == {Undefined, DashV, PrefixV}

\* regex.test(str)
RegExpTest(pattern, str) ==
    IF pattern = DashV THEN Occurrences(str, <<"-", "v">>) # {}
    ELSE Len(str) >= 1 /\ str[1] = "v"

\* str.match(regex).groups?.version, for a str the regex matches: the
\* greedy leading .* of DashV leaves the text after the last "-v" to the
\* group; PrefixV has no named group, so groups is undefined
MatchVersionGroup(pattern, str) ==
    IF pattern = DashV
    THEN Slice(str, SetMax(Occurrences(str, <<"-", "v">>)) + 1)
    ELSE Undefined

TypeError == <<"TypeError">>

normalizeTag(tag, filter) ==
    IF Truthy(filter)
    THEN IF ~RegExpTest(filter, tag)
         THEN TypeError     \* matches is null: matches.length throws
         ELSE IF ~Truthy(MatchVersionGroup(filter, tag))
              THEN tag
              ELSE MatchVersionGroup(filter, tag)
    ELSE IF Len(tag) >= 1 /\ tag[1] = "v" THEN Slice(tag, 1) ELSE tag

Stable == <<"s", "t", "a", "b", "l", "e">>

getSuffix(str) ==
    LET parts == Split(str, "-")
        suffix == IF Len(parts) >= 2 THEN parts[2] ELSE Undefined
    IN IF ~Truthy(suffix) THEN Stable ELSE Split(suffix, ".")[1]

extractChannel(tag, filter) ==
    IF ~Truthy(filter) THEN getSuffix(tag)
    ELSE IF ~RegExpTest(filter, tag)
         THEN TypeError     \* matches is null: matches.length throws
         ELSE IF ~Truthy(MatchVersionGroup(filter, tag))
              THEN Stable
              ELSE getSuffix(MatchVersionGroup(filter, tag))

(* ---------------------------------------------------------------------- *)
(* Platforms (lib/utils/platforms.js is not part of the sources at hand;  *)
(* modelled from section 4.3 of the specification)                        *)
(* ---------------------------------------------------------------------- *)

\* file names whose extension a handler reads
MacYml == <<"m", "a", "c", ".", "y", "m", "l">>
OsxZip == <<"o", "s", "x", ".", "z", "i", "p">>

\* platforms.detect(name): the platform identifier of a file name or of a
\* requested platform, Null when it is not recognised
detect(name) ==
    CASE name \in {<<"app.dmg">>, <<"osx">>, MacYml, OsxZip} -> <<"osx">>
      [] name \in {<<"app.exe">>, <<"RELEASES">>, <<"win">>, <<"windows">>,
                   <<"win_32">>} -> <<"windows">>
      [] name \in {<<"app64.deb">>, <<"linux_64">>} -> <<"linux_64">>
      [] name \in {<<"linux">>} -> <<"linux">>
      [] OTHER -> Null

\* platforms.satisfies(requested, available): requested is available, or
\* is the generic variant of an available specific platform
satisfies(requested, available) ==
    \/ \E i \in 1..Len(available) : available[i] = requested
    \/ /\ requested = <<"linux">>
       /\ \E i \in 1..Len(available) : available[i] = <<"linux_64">>

(* ---------------------------------------------------------------------- *)
(* normalizeVersion                                                       *)
(* ---------------------------------------------------------------------- *)

RECURSIVE Compact(_)
\* _.compact() over a sequence of zero-or-one-element sequences (null is <<>>)
Compact(seq) == IF seq = <<>> THEN <<>> ELSE Head(seq) \o Compact(Tail(seq))

releasePlatforms(release) ==
    Compact([i \in 1..Len(release.assets) |->
        IF ~Truthy(detect(release.assets[i])) THEN <<>>
        ELSE << [type |-> detect(release.assets[i]),
                 filename |-> release.assets[i]] >>])

\* normalizeVersion without its first statement: a draft is built too
normalizeVersionKeepsDrafts(release, filter) ==
    IF Truthy(filter) /\ ~RegExpTest(filter, release.tag_name) THEN <<>>
    ELSE << [version |-> normalizeTag(release.tag_name, filter),
             tag |-> Split(normalizeTag(release.tag_name, filter), "-")[1],
             channel |-> extractChannel(release.tag_name, filter),
             notes |-> IF Truthy(release.body) THEN release.body ELSE <<>>,
             published_at |-> release.published_at,
             platforms |-> releasePlatforms(release)] >>

\* null is the empty sequence, a Version is a sequence of one record
normalizeVersion(release, filter) ==
    IF release.draft THEN <<>>
    ELSE IF Truthy(filter) /\ ~RegExpTest(filter, release.tag_name) THEN <<>>
    ELSE << [version |-> normalizeTag(release.tag_name, filter),
             tag |-> Split(normalizeTag(release.tag_name, filter), "-")[1],
             channel |-> extractChannel(release.tag_name, filter),
             notes |-> IF Truthy(release.body) THEN release.body ELSE <<>>,
             published_at |-> release.published_at,
             platforms |-> releasePlatforms(release)] >>

(* ---------------------------------------------------------------------- *)
(* semver (the npm package, strict mode), for strings without "-" or "+": *)
(* Version.tag is the text before the first "-", and the tags of the      *)
(* model hold no "+"                                                      *)
(* ---------------------------------------------------------------------- *)

Digits == <<"0", "1", "2", "3", "4", "5", "6", "7", "8", "9">>

IsDigit(c) == \E d \in 1..10 : Digits[d] = c

DigitValue(c) == (CHOOSE d \in 1..10 : Digits[d] = c) - 1

\* a numeric identifier: digits, without a leading zero
IsNumericId(s) ==
    /\ Len(s) >= 1
    /\ \A i \in 1..Len(s) : IsDigit(s[i])
    /\ (Len(s) = 1 \/ s[1] # "0")

RECURSIVE ToNumber(_)
ToNumber(s) ==
    IF s = <<>> THEN 0
    ELSE 10 * ToNumber(SubSeq(s, 1, Len(s) - 1)) + DigitValue(s[Len(s)])

\* the text of a version without the one leading "v" the grammar allows
StripV(str) == IF Len(str) >= 1 /\ str[1] = "v" THEN Slice(str, 1) ELSE str

\* whether new SemVer(str) succeeds: v?MAJOR.MINOR.PATCH
SemverValid(str) ==
    LET parts == Split(StripV(str), ".")
    IN /\ Len(parts) = 3
       /\ \A i \in 1..3 : IsNumericId(parts[i])

\* <<major, minor, patch>> of a valid version
SemverParse(str) ==
    LET parts == Split(StripV(str), ".")
    IN <<ToNumber(parts[1]), ToNumber(parts[2]), ToNumber(parts[3])>>

\* SemVer.compare of two parsed versions: -1, 0 or 1
CompareMain(a, b) ==
    IF a[1] # b[1] THEN (IF a[1] < b[1] THEN -1 ELSE 1)
    ELSE IF a[2] # b[2] THEN (IF a[2] < b[2] THEN -1 ELSE 1)
    ELSE IF a[3] # b[3] THEN (IF a[3] < b[3] THEN -1 ELSE 1)
    ELSE 0

\* semver.gt / semver.lt of two valid versions (an invalid one throws)
SemverGt(a, b) == CompareMain(SemverParse(a), SemverParse(b)) = 1
SemverLt(a, b) == CompareMain(SemverParse(a), SemverParse(b)) = -1

(* ---------------------------------------------------------------------- *)
(* compareVersions and Versions.list                                      *)
(* ---------------------------------------------------------------------- *)

\* compareVersions throws the TypeError of new SemVer on an invalid tag
compareVersionsThrows(v1, v2) == ~SemverValid(v1.tag) \/ ~SemverValid(v2.tag)

\* compareVersions with the two results exchanged: oldest first
compareVersionsAscending(v1, v2) ==
    IF SemverGt(v1.tag, v2.tag) THEN 1
    ELSE IF SemverLt(v1.tag, v2.tag) THEN -1
    ELSE 0

compareVersions(v1, v2) ==
    IF SemverGt(v1.tag, v2.tag) THEN -1
    ELSE IF SemverLt(v1.tag, v2.tag) THEN 1
    ELSE 0

RECURSIVE InsertSorted(_, _)
\* v placed before the first element it sorts strictly before
InsertSorted(v, sorted) ==
    IF sorted = <<>> THEN <<v>>
    ELSE IF compareVersions(v, Head(sorted)) < 0 THEN <<v>> \o sorted
    ELSE <<Head(sorted)>> \o InsertSorted(v, Tail(sorted))

RECURSIVE SortVersions(_)
\* Array.prototype.sort(compareVersions): a stable sort, elements taken
\* left to right
SortVersions(versions) ==
    IF versions = <<>> THEN <<>>
    ELSE InsertSorted(versions[Len(versions)],
                      SortVersions(SubSeq(versions, 1, Len(versions) - 1)))

\* a sort of two or more elements compares every element at least once,
\* so it throws when one of the tags is no version; a sort of fewer
\* elements never calls the comparator
SortThrows(versions) ==
    /\ Len(versions) >= 2
    /\ \E i \in 1..Len(versions) : ~SemverValid(versions[i].tag)

\* the map and compact steps of list()
NormalizedVersions(rawReleases, filter) ==
    Compact([i \in 1..Len(rawReleases) |-> normalizeVersion(rawReleases[i], filter)])

\* the outcome of the promise list() returns, given that of backend.releases()
ListOutcome(backendOk, rawReleases, filter) ==
    IF ~backendOk
    THEN [status |-> "rejected", error |-> <<"BackendError">>, versions |-> <<>>]
    ELSE IF SortThrows(NormalizedVersions(rawReleases, filter))
    THEN [status |-> "rejected", error |-> TypeError, versions |-> <<>>]
    ELSE [status |-> "fulfilled", error |-> <<>>,
          versions |-> SortVersions(NormalizedVersions(rawReleases, filter))]

(* ---------------------------------------------------------------------- *)
(* semver.satisfies(version, range), for the ranges the callers build:    *)
(* "*", ">=" + partial version, and a partial or full version             *)
(* ---------------------------------------------------------------------- *)

\* a partial version v?MAJOR(.MINOR(.PATCH)?)?
IsPartial(str) ==
    LET parts == Split(StripV(str), ".")
    IN /\ Len(parts) \in 1..3
       /\ \A i \in 1..Len(parts) : IsNumericId(parts[i])

\* the identifiers of a partial version, the absent ones taken as 0
PartialLow(str) ==
    LET parts == Split(StripV(str), ".")
    IN [i \in 1..3 |-> IF i <= Len(parts) THEN ToNumber(parts[i]) ELSE 0]

\* the first version above an x-range: 1 -> 2.0.0, 1.2 -> 1.3.0
PartialHigh(str) ==
    LET parts == Split(StripV(str), ".")
        low == PartialLow(str)
    IN IF Len(parts) = 1 THEN <<low[1] + 1, 0, 0>> ELSE <<low[1], low[2] + 1, 0>>

IsGreaterEqualRange(range) ==
    Len(range) >= 2 /\ range[1] = ">" /\ range[2] = "="

\* whether new Range(range) succeeds
RangeValid(range) ==
    \/ range = <<"*">>
    \/ IsGreaterEqualRange(range) /\ IsPartial(Slice(range, 2))
    \/ IsPartial(range)

\* false for an invalid version or range (both are caught inside semver)
SemverSatisfies(version, range) ==
    /\ SemverValid(version)
    /\ RangeValid(range)
    /\ \/ range = <<"*">>
       \/ /\ IsGreaterEqualRange(range)
          /\ CompareMain(SemverParse(version), PartialLow(Slice(range, 2))) >= 0
       \/ /\ IsPartial(range)
          /\ CompareMain(SemverParse(version), PartialLow(range)) >= 0
          /\ \/ Len(Split(StripV(range), ".")) = 3
                /\ CompareMain(SemverParse(version), PartialLow(range)) = 0
             \/ Len(Split(StripV(range), ".")) < 3
                /\ CompareMain(SemverParse(version), PartialHigh(range)) < 0

(* ---------------------------------------------------------------------- *)
(* Versions.filter, Versions.resolve, Versions.channels                   *)
(* ---------------------------------------------------------------------- *)

Latest == <<"l", "a", "t", "e", "s", "t">>
Star == <<"*">>

Omitted == [omitted |-> TRUE, tag |-> Undefined, platform |-> Undefined,
            channel |-> Undefined]

\* _.defaults(opts || {}, {tag: 'latest', platform: null, channel: 'stable'}):
\* a property is filled in when it is undefined
Defaults(opts) ==
    [omitted |-> FALSE,
     tag |-> IF opts.tag = Undefined THEN Latest ELSE opts.tag,
     platform |-> IF opts.platform = Undefined THEN Null ELSE opts.platform,
     channel |-> IF opts.channel = Undefined THEN Stable ELSE opts.channel]

\* opts after the first three statements of filter()
FilterOpts(opts) ==
    [Defaults(opts) EXCEPT
        !.platform = IF Truthy(Defaults(opts).platform)
                     THEN detect(Defaults(opts).platform)
                     ELSE Defaults(opts).platform]

\* _.pluck(version.platforms, 'type')
PluckType(platforms) == [i \in 1..Len(platforms) |-> platforms[i].type]

\* the callback of filter() without the "*" wildcard of the channel
FilterKeepsNoWildcard(o, version) ==
    IF version.channel # o.channel THEN FALSE
    ELSE IF Truthy(o.platform) /\ ~satisfies(o.platform, PluckType(version.platforms))
    THEN FALSE
    ELSE o.tag = Latest \/ SemverSatisfies(version.tag, o.tag)

\* the callback of _.filter in filter()
FilterKeeps(o, version) ==
    IF o.channel # Star /\ version.channel # o.channel THEN FALSE
    ELSE IF Truthy(o.platform) /\ ~satisfies(o.platform, PluckType(version.platforms))
    THEN FALSE
    ELSE o.tag = Latest \/ SemverSatisfies(version.tag, o.tag)

RECURSIVE FilterSeqReversed(_, _)
\* a filter that collects the kept Versions in front of the earlier ones
FilterSeqReversed(o, versions) ==
    IF versions = <<>> THEN <<>>
    ELSE FilterSeqReversed(o, Tail(versions))
         \o (IF FilterKeeps(o, Head(versions)) THEN <<Head(versions)>> ELSE <<>>)

RECURSIVE FilterSeq(_, _)
\* _.filter(versions, callback): the kept Versions, in the order of versions
FilterSeq(o, versions) ==
    IF versions = <<>> THEN <<>>
    ELSE (IF FilterKeeps(o, Head(versions)) THEN <<Head(versions)>> ELSE <<>>)
         \o FilterSeq(o, Tail(versions))

\* the outcome of the promise filter(opts) returns
FilterOutcome(backendOk, rawReleases, filter, opts) ==
    LET listed == ListOutcome(backendOk, rawReleases, filter)
    IN IF listed.status = "rejected" THEN listed
       ELSE [listed EXCEPT !.versions = FilterSeq(FilterOpts(opts), listed.versions)]

NotFound(tag) == <<"Version not found: ">> \o tag

\* the outcome of the promise resolve(opts) returns: versions holds the
\* resolved Version alone.  filter() rebinds its own parameter when opts
\* is omitted, so resolve's opts is still undefined and opts.tag throws
ResolveOutcome(backendOk, rawReleases, filter, opts) ==
    LET filtered == FilterOutcome(backendOk, rawReleases, filter, opts)
    IN IF filtered.status = "rejected" THEN filtered
       ELSE IF filtered.versions # <<>>
       THEN [filtered EXCEPT !.versions = <<Head(filtered.versions)>>]
       ELSE IF opts.omitted
       THEN [status |-> "rejected", error |-> TypeError, versions |-> <<>>]
       ELSE [status |-> "rejected", error |-> NotFound(Defaults(opts).tag),
             versions |-> <<>>]

\* one step of the _.each of channels(): channels is a function from the
\* channels seen so far to their summaries
ChannelStep(channels, version) ==
    LET c == version.channel
        seen == IF c \in DOMAIN channels THEN channels[c]
                ELSE [latest |-> Null, versions_count |-> 0, published_at |-> 0]
        counted == [seen EXCEPT !.versions_count = seen.versions_count + 1]
        updated == IF counted.published_at < version.published_at
                   THEN [counted EXCEPT !.latest = version.tag,
                                        !.published_at = version.published_at]
                   ELSE counted
    IN [k \in DOMAIN channels \cup {c} |-> IF k = c THEN updated ELSE channels[k]]

RECURSIVE ChannelFold(_, _)
ChannelFold(channels, versions) ==
    IF versions = <<>> THEN channels
    ELSE ChannelFold(ChannelStep(channels, Head(versions)), Tail(versions))

NoChannels == [k \in {} |-> 0]

\* the value channels() resolves to, from the value of list()
ChannelsOf(versions) == ChannelFold(NoChannels, versions)

(* ---------------------------------------------------------------------- *)
(* Raw releases the backend returns                                       *)
(* ---------------------------------------------------------------------- *)

V100 == <<"v", "1", ".", "0", ".", "0">>
V200Beta1 == <<"v", "2", ".", "0", ".", "0", "-", "b", "e", "t", "a", ".", "1">>
V110 == <<"v", "1", ".", "1", ".", "0">>
T110Dot5 == <<"1", ".", "1", ".", "0", "-", ".", "5">>
T100Dash == <<"1", ".", "0", ".", "0", "-">>
AppV120Rc == <<"a", "p", "p", "-", "v", "1", ".", "2", ".", "0", "-", "r", "c">>
AppV == <<"a", "p", "p", "-", "v">>

Beta == <<"b", "e", "t", "a">>

\* the tag names of SpecList: plain and pre-release tags, a trailing dash,
\* a dot right after the dash, tags for the DashV filter, and tags that
\* are no semantic version
ListTagNames == {V100, V200Beta1, T110Dot5, T100Dash, AppV120Rc, AppV}

ListReleases ==
    [tag_name : ListTagNames, draft : BOOLEAN, body : {<<"n">>},
     published_at : {1}, assets : {<< <<"app.dmg">> >>}]

\* the releases of SpecVersions: three tags on two channels; a release
\* with a macOS asset published before, at or after the epoch, or a release
\* published after the epoch with an asset for macOS or for Windows (no
\* query reads both the publish date and the assets)
CatalogReleases ==
    [tag_name : {V100, V110, V200Beta1}, draft : {FALSE}, body : {<<"n">>},
     published_at : {-1, 0, 1}, assets : {<< <<"app.dmg">> >>}]
    \cup
    [tag_name : {V100, V110, V200Beta1}, draft : {FALSE}, body : {<<"n">>},
     published_at : {1}, assets : {<< <<"app.dmg">> >>, << <<"app.exe">> >>}]

\* the sequences over S of length at most n
SeqUpTo(S, n) == UNION {[1..k -> S] : k \in 0..n}

NoCall == [op |-> "none", opts |-> Omitted, status |-> "none", error |-> <<>>,
           versions |-> <<>>, channels |-> NoChannels]

Called(op, opts, outcome) ==
    [op |-> op, opts |-> opts, status |-> outcome.status, error |-> outcome.error,
     versions |-> outcome.versions, channels |-> NoChannels]

\* no request is being served.  responses counts the responses sent on res
\* (by the handler or by backend.serveAsset), nexts the calls of next, and
\* unhandled holds the error of a rejected promise nobody handles
NoRequest ==
    [handler |-> "none", pc |-> "idle", platform |-> Undefined, channel |-> Undefined,
     version |-> Undefined, tag |-> Undefined, status |-> 0,
     manifest |-> [name |-> Undefined, notes |-> <<>>, channel |-> Undefined,
                   pub_date |-> 0],
     error |-> <<>>,
     filename |-> Undefined, content |-> Undefined, responses |-> 0, nexts |-> 0,
     unhandled |-> <<>>]

\* a Nuts object nobody has called yet
NutsIdle ==
    /\ preFetch = TRUE
    /\ cache = 0
    /\ promises = <<>>
    /\ backendInits = 0
    /\ callers = <<>>
    /\ req = NoRequest

(* ---------------------------------------------------------------------- *)
(* SpecList: list() over any short release list and any tag filter        *)
(* ---------------------------------------------------------------------- *)

InitList ==
    /\ releases \in SeqUpTo(ListReleases, MaxReleases)
    /\ tagNameFilter \in TagNameFilters
    /\ call = NoCall
    /\ NutsIdle

\* versions.list(): backend.releases() settles, then map, compact, sort.
\* A Versions object holds no state of its own between calls, so the
\* queries are taken one at a time
List ==
    /\ call.op = "none"
    /\ \E backendOk \in BOOLEAN :
        call' = Called("list", Omitted, ListOutcome(backendOk, releases, tagNameFilter))
    /\ UNCHANGED <<releases, tagNameFilter, nutsVars>>

\* the caller has taken the outcome; the object keeps nothing of the call
Done ==
    /\ call.op # "none"
    /\ call' = NoCall
    /\ UNCHANGED <<releases, tagNameFilter, nutsVars>>

NextList == List \/ Done

SpecList == InitList /\ [][NextList]_vars

(* ---------------------------------------------------------------------- *)
(* SpecVersions: the queries of a Versions object built without a filter  *)
(* ---------------------------------------------------------------------- *)

\* the longest release list of SpecVersions, SpecTags and Spec
MaxCatalog == 2

Ge110 == <<">", "=", "1", ".", "1", ".", "0">>
T100 == <<"1", ".", "0", ".", "0">>

\* the options the callers pass: every property may be absent
QueryOpts ==
    {Omitted} \cup
    [omitted : {FALSE}, tag : {Undefined, Latest, Ge110, T100},
     platform : {Undefined, <<"osx">>, <<"amiga">>},
     channel : {Undefined, Star, Beta}]

InitVersions ==
    /\ releases \in SeqUpTo(CatalogReleases, MaxCatalog)
    /\ tagNameFilter = Undefined
    /\ call = NoCall
    /\ NutsIdle

\* versions.filter(opts)
Filter ==
    /\ call.op = "none"
    /\ \E backendOk \in BOOLEAN, opts \in QueryOpts :
        call' = Called("filter", opts,
                       FilterOutcome(backendOk, releases, tagNameFilter, opts))
    /\ UNCHANGED <<releases, tagNameFilter, nutsVars>>

\* versions.resolve(opts)
Resolve ==
    /\ call.op = "none"
    /\ \E backendOk \in BOOLEAN, opts \in QueryOpts :
        call' = Called("resolve", opts,
                       ResolveOutcome(backendOk, releases, tagNameFilter, opts))
    /\ UNCHANGED <<releases, tagNameFilter, nutsVars>>

\* versions.channels()
Channels ==
    /\ call.op = "none"
    /\ \E backendOk \in BOOLEAN :
        LET listed == ListOutcome(backendOk, releases, tagNameFilter)
        IN call' = [Called("channels", Omitted, listed) EXCEPT
                      !.versions = <<>>,
                      !.channels = IF listed.status = "fulfilled"
                                   THEN ChannelsOf(listed.versions)
                                   ELSE NoChannels]
    /\ UNCHANGED <<releases, tagNameFilter, nutsVars>>

NextVersions == List \/ Filter \/ Resolve \/ Channels \/ Done

SpecVersions == InitVersions /\ [][NextVersions]_vars

(* ---------------------------------------------------------------------- *)
(* Properties of list() (SpecList)                                        *)
(* ---------------------------------------------------------------------- *)

ListFulfilled == call.op = "list" /\ call.status = "fulfilled"

\* a release that must not become a Version: a draft, or one whose tag
\* name an active filter does not match
Excluded(release) ==
    \/ release.draft
    \/ Truthy(tagNameFilter) /\ ~RegExpTest(tagNameFilter, release.tag_name)

Admitted == {i \in 1..Len(releases) : ~Excluded(releases[i])}

\* C2: normalizeVersion returns null for every draft release and for every
\* release whose tag name fails the active filter, and the Versions of
\* list() are built from the other releases alone, one from each.
C2_DraftsAndUnmatchedExcluded ==
    /\ \A i \in 1..Len(releases) :
        Excluded(releases[i]) => normalizeVersion(releases[i], tagNameFilter) = <<>>
    /\ ListFulfilled =>
        /\ Len(call.versions) = Cardinality(Admitted)
        /\ \A k \in 1..Len(call.versions) :
            \E i \in Admitted :
                normalizeVersion(releases[i], tagNameFilter) = <<call.versions[k]>>

\* list() answered for a filtered catalog holding a draft, a release the
\* filter rejects and a release that became a Version
C2_Witness ==
    /\ ListFulfilled
    /\ Truthy(tagNameFilter)
    /\ \E i, j \in 1..Len(releases) :
        /\ releases[i].draft
        /\ ~releases[j].draft
        /\ ~RegExpTest(tagNameFilter, releases[j].tag_name)
    /\ Len(call.versions) >= 1

\* semantic-version precedence of two valid tags, stated on their numbers
TagNewer(t1, t2) ==
    LET a == SemverParse(t1)
        b == SemverParse(t2)
    IN \/ a[1] > b[1]
       \/ a[1] = b[1] /\ a[2] > b[2]
       \/ a[1] = b[1] /\ a[2] = b[2] /\ a[3] > b[3]

\* the Versions of a sequence whose tag is a semantic version
ComparableVersions(versions) ==
    {versions[k] : k \in {i \in 1..Len(versions) : SemverValid(versions[i].tag)}}

\* the Versions of a sequence whose tag has the precedence of tag
SameTag(versions, tag) ==
    SelectSeq(versions, LAMBDA v : SemverValid(v.tag) /\ ~TagNewer(v.tag, tag)
                                   /\ ~TagNewer(tag, v.tag))

\* C3: compareVersions orders Versions by the semantic-version precedence
\* of their tags (newer first, antisymmetric, transitive, 0 exactly on
\* equal precedence), and list() is sorted by it: no Version is newer than
\* one before it, and Versions of equal tags keep the order of their
\* releases in the backend's list.
C3_SortedNewestFirstStable ==
    LET normalized == NormalizedVersions(releases, tagNameFilter)
        comparable == ComparableVersions(normalized)
    IN /\ \A a, b \in comparable :
           /\ (compareVersions(a, b) < 0) = TagNewer(a.tag, b.tag)
           /\ (compareVersions(a, b) > 0) = TagNewer(b.tag, a.tag)
           /\ compareVersions(a, b) = 0 - compareVersions(b, a)
       /\ \A a, b, c \in comparable :
           (compareVersions(a, b) <= 0 /\ compareVersions(b, c) <= 0)
               => compareVersions(a, c) <= 0
       /\ (ListFulfilled /\ Len(call.versions) >= 2) =>
           /\ \A i, j \in 1..Len(call.versions) :
               i < j => ~TagNewer(call.versions[j].tag, call.versions[i].tag)
           /\ \A k \in 1..Len(call.versions) :
               SameTag(call.versions, call.versions[k].tag)
                   = SameTag(normalized, call.versions[k].tag)

\* list() answered with three Versions the backend gave in another order,
\* two of them different Versions of one tag
C3_Witness ==
    /\ ListFulfilled
    /\ Len(call.versions) = 3
    /\ call.versions # NormalizedVersions(releases, tagNameFilter)
    /\ \E i, j \in 1..3 :
        /\ i < j
        /\ call.versions[i].tag = call.versions[j].tag
        /\ call.versions[i] # call.versions[j]
    /\ \E i, j \in 1..3 : TagNewer(call.versions[i].tag, call.versions[j].tag)

\* C8: every Version of list() has a non-empty channel, with or without a
\* tag filter.
C8_ChannelNeverEmpty ==
    ListFulfilled => \A k \in 1..Len(call.versions) : call.versions[k].channel # <<>>

(* ---------------------------------------------------------------------- *)
(* Properties of filter(), resolve() and channels() (SpecVersions)        *)
(* ---------------------------------------------------------------------- *)

\* what list() resolves to for the releases of the state
Listed == ListOutcome(TRUE, releases, tagNameFilter).versions

FilterFulfilled == call.op = "filter" /\ call.status = "fulfilled"

\* the options of the call merged over the defaults
RequestedTag == IF call.opts.tag = Undefined THEN Latest ELSE call.opts.tag
RequestedChannel == IF call.opts.channel = Undefined THEN Stable ELSE call.opts.channel
\* the requested platform as the classifier resolves it; Null when none is
\* requested or the classifier does not know it
RequestedPlatform ==
    IF call.opts.platform \in {Undefined, Null} THEN Null ELSE detect(call.opts.platform)

ChannelHolds(v) == RequestedChannel = Star \/ v.channel = RequestedChannel

PlatformHolds(v) ==
    \/ RequestedPlatform = Null
    \/ \E a \in 1..Len(v.platforms) : satisfies(RequestedPlatform, <<v.platforms[a].type>>)

TagHolds(v) == RequestedTag = Latest \/ SemverSatisfies(v.tag, RequestedTag)

\* C4: filter(options) returns exactly the Versions of list() for which the
\* channel, the platform and the tag condition hold, in list() order.
C4_FilterKeepsExactlyMatching ==
    FilterFulfilled =>
        call.versions = SelectSeq(Listed, LAMBDA v : ChannelHolds(v) /\ PlatformHolds(v)
                                                     /\ TagHolds(v))

\* a filter with a channel, a platform and a range that kept one of two
\* listed Versions
C4_Witness ==
    /\ FilterFulfilled
    /\ call.opts.channel = Star
    /\ call.opts.platform = <<"osx">>
    /\ call.opts.tag = Ge110
    /\ Len(Listed) = 2
    /\ Len(call.versions) = 1

\* C5: resolve(options) returns the first element of filter(options) when
\* there is one, and otherwise fails with the Version-not-found error that
\* carries the requested tag, also when options is omitted.
C5_ResolveFirstOrNotFound ==
    (call.op = "resolve" /\ call.error # <<"BackendError">>) =>
        LET filtered == FilterOutcome(TRUE, releases, tagNameFilter, call.opts).versions
        IN IF filtered # <<>>
           THEN call.status = "fulfilled" /\ call.versions = <<Head(filtered)>>
           ELSE call.status = "rejected" /\ call.error = NotFound(RequestedTag)

\* the Versions of list() on a channel
OnChannel(c) == SelectSeq(Listed, LAMBDA v : v.channel = c)

\* C6: channels() returns one summary per channel of list(), with the
\* number of its Versions and, as latest, the tag of a Version of the
\* channel with the maximum published_at.
C6_ChannelSummaries ==
    (call.op = "channels" /\ call.status = "fulfilled") =>
        /\ DOMAIN call.channels = {Listed[i].channel : i \in 1..Len(Listed)}
        /\ \A c \in DOMAIN call.channels :
            /\ call.channels[c].versions_count = Len(OnChannel(c))
            /\ \E i \in 1..Len(OnChannel(c)) :
                /\ \A j \in 1..Len(OnChannel(c)) :
                    OnChannel(c)[j].published_at <= OnChannel(c)[i].published_at
                /\ call.channels[c].latest = OnChannel(c)[i].tag

\* a is b with some elements left out
RECURSIVE IsSubsequence(_, _)
IsSubsequence(a, b) ==
    IF a = <<>> THEN TRUE
    ELSE IF b = <<>> THEN FALSE
    ELSE IF Head(a) = Head(b) THEN IsSubsequence(Tail(a), Tail(b))
    ELSE IsSubsequence(a, Tail(b))

IsPrefix(a, b) == Len(a) <= Len(b) /\ SubSeq(b, 1, Len(a)) = a

\* a filter call for the latest tag
LatestFilterFulfilled == FilterFulfilled /\ RequestedTag = Latest

\* C7 as stated: filter({tag: "latest"}) returns a prefix of list().
C7_LatestIsPrefix ==
    (LatestFilterFulfilled /\ call.opts.platform = Undefined
     /\ call.opts.channel = Undefined) => IsPrefix(call.versions, Listed)

\* C7 amended: filter({tag: "latest"}) returns a subsequence of list(), its
\* Versions in list() order; with no other option, the stable ones.
C7_LatestIsSubsequence ==
    LatestFilterFulfilled =>
        /\ IsSubsequence(call.versions, Listed)
        /\ (call.opts.platform = Undefined /\ call.opts.channel = Undefined) =>
            call.versions = OnChannel(Stable)

\* a filter for the latest tag that kept a Version of list() and dropped
\* the one before it
C7_Witness ==
    /\ LatestFilterFulfilled
    /\ call.opts.platform = Undefined
    /\ call.opts.channel = Undefined
    /\ call.versions # <<>>
    /\ ~IsPrefix(call.versions, Listed)

(* ---------------------------------------------------------------------- *)
(* SpecTags: list() and filter() over catalogs that hold tags which are   *)
(* no semantic version, with and without a tag filter                     *)
(* ---------------------------------------------------------------------- *)

\* the releases of SpecTags: two semantic versions, a tag that is one only
\* under the DashV filter, and a tag that is none under any filter
TagReleases ==
    [tag_name : {V100, V110, AppV120Rc, AppV}, draft : BOOLEAN, body : {<<"n">>},
     published_at : {1}, assets : {<< <<"app.dmg">> >>}]

InitTags ==
    /\ releases \in SeqUpTo(TagReleases, MaxCatalog)
    /\ tagNameFilter \in TagNameFilters
    /\ call = NoCall
    /\ NutsIdle

NextTags == List \/ Filter \/ Done

SpecTags == InitTags /\ [][NextTags]_vars

\* a release that is no draft and passes the filter, whose Version has a
\* tag that semver cannot parse
MalformedAdmitted ==
    \E i \in Admitted :
        ~SemverValid(normalizeVersion(releases[i], tagNameFilter)[1].tag)

\* C11: whenever a non-draft, filter-passing release has a tag that is no
\* semantic version, list() is rejected with the comparison error for a
\* catalog of any size (one release included), filter() is rejected too and
\* never skips the Version silently, and no fulfilled result of list() or
\* filter() holds a Version with such a tag.
C11_MalformedTagIsFatal ==
    call.op \in {"list", "filter"} =>
        /\ MalformedAdmitted =>
            /\ call.status = "rejected"
            /\ call.error \in {TypeError, <<"BackendError">>}
        /\ call.status = "fulfilled" =>
            \A k \in 1..Len(call.versions) : SemverValid(call.versions[k].tag)

(* ---------------------------------------------------------------------- *)
(* SpecInit: Nuts.init, the memoized _init, under concurrent callers      *)
(* ---------------------------------------------------------------------- *)

\* how many handlers call this.init() in SpecInit
MaxCallers == 3

\* _init(): the promise of Q().then(...), whose first callback has not run
NewInit == [stage |-> "scheduled"]

\* _init called on every call: no cache is consulted
initNotMemoized(cached, made) ==
    [cache |-> Len(made) + 1, promises |-> Append(made, NewInit),
     returned |-> Len(made) + 1]

\* this.init(), that is _.memoize(this._init) called without arguments: the
\* key is undefined; a cached promise is returned as it is, otherwise
\* _init runs and the promise it returns is cached
init(cached, made) ==
    IF cached # 0
    THEN [cache |-> cached, promises |-> made, returned |-> cached]
    ELSE [cache |-> Len(made) + 1, promises |-> Append(made, NewInit),
          returned |-> Len(made) + 1]

Settled(p) == promises[p].stage \in {"fulfilled", "rejected"}

\* the catalogs of SpecInit: empty, one release, and one that list()
\* cannot sort
InitCatalogs ==
    LET R(t) == [tag_name |-> t, draft |-> FALSE, body |-> <<"n">>,
                 published_at |-> 1, assets |-> << <<"app.dmg">> >>]
    IN {<<>>, <<R(V100)>>, <<R(AppV), R(V100)>>}

InitInit ==
    /\ releases \in InitCatalogs
    /\ tagNameFilter = Undefined
    /\ call = NoCall
    /\ preFetch \in BOOLEAN
    /\ cache = 0
    /\ promises = <<>>
    /\ backendInits = 0
    /\ callers = <<>>
    /\ req = NoRequest

\* a handler (onUpdateWin, serveAsset) is invoked and calls that.init()
CallInit ==
    /\ Len(callers) < MaxCallers
    /\ LET r == init(cache, promises)
       IN /\ cache' = r.cache
          /\ promises' = r.promises
          /\ callers' = Append(callers, [pc |-> "waiting", promise |-> r.returned,
                                         result |-> "none"])
    /\ UNCHANGED <<releases, tagNameFilter, call, preFetch, backendInits, req>>

\* the first callback of _init runs: backend.init() is started
StartBackendInit(p) ==
    /\ promises[p].stage = "scheduled"
    /\ promises' = [promises EXCEPT ![p].stage = "backendInit"]
    /\ backendInits' = backendInits + 1
    /\ UNCHANGED <<releases, tagNameFilter, call, preFetch, cache, callers, req>>

\* backend.init() settles; on success the second callback of _init returns
\* at once or starts versions.list()
BackendInitSettles(p) ==
    /\ promises[p].stage = "backendInit"
    /\ \E ok \in BOOLEAN :
        promises' = [promises EXCEPT ![p].stage =
                        IF ~ok THEN "rejected"
                        ELSE IF ~preFetch THEN "fulfilled"
                        ELSE "prefetch"]
    /\ UNCHANGED <<releases, tagNameFilter, call, preFetch, cache, backendInits,
                   callers, req>>

\* the versions.list() of the prefetch settles, and with it the promise
PrefetchSettles(p) ==
    /\ promises[p].stage = "prefetch"
    /\ \E backendOk \in BOOLEAN :
        promises' = [promises EXCEPT ![p].stage =
                        ListOutcome(backendOk, releases, tagNameFilter).status]
    /\ UNCHANGED <<releases, tagNameFilter, call, preFetch, cache, backendInits,
                   callers, req>>

\* the callback a caller chained on the promise runs once it has settled
CallerResumes(c) ==
    /\ callers[c].pc = "waiting"
    /\ Settled(callers[c].promise)
    /\ callers' = [callers EXCEPT ![c].pc = "resumed",
                                  ![c].result = promises[callers[c].promise].stage]
    /\ UNCHANGED <<releases, tagNameFilter, call, preFetch, cache, promises,
                   backendInits, req>>

NextInit ==
    \/ CallInit
    \/ \E p \in 1..Len(promises) : StartBackendInit(p)
    \/ \E p \in 1..Len(promises) : BackendInitSettles(p)
    \/ \E p \in 1..Len(promises) : PrefetchSettles(p)
    \/ \E c \in 1..Len(callers) : CallerResumes(c)

SpecInit == InitInit /\ [][NextInit]_vars

\* C1: however many callers call init() and however the calls interleave
\* with the initialization, _init runs once and backend.init() is started
\* once (as soon as its callback has run), and every caller holds the same
\* promise and sees the same result.
C1_InitRunsOnce ==
    /\ Len(promises) <= 1
    /\ backendInits <= 1
    /\ callers # <<>> => Len(promises) = 1
    /\ \A p \in 1..Len(promises) : promises[p].stage # "scheduled" => backendInits = 1
    /\ \A c \in 1..Len(callers) :
        /\ callers[c].promise = cache
        /\ callers[c].pc = "resumed" => callers[c].result = promises[cache].stage
    /\ \A c, d \in 1..Len(callers) :
        (callers[c].pc = "resumed" /\ callers[d].pc = "resumed")
            => callers[c].result = callers[d].result

\* three callers wait on the one initialization in flight, whose
\* backend.init() was started once
C1_Witness ==
    /\ Len(callers) >= 3
    /\ callers[1].pc = "waiting"
    /\ callers[2].pc = "waiting"
    /\ callers[3].pc = "waiting"
    /\ promises[cache].stage = "prefetch"
    /\ backendInits = 1

(* ---------------------------------------------------------------------- *)
(* Spec: the update route, Nuts.onUpdate                                  *)
(* ---------------------------------------------------------------------- *)

\* the releases behind the update route: three tags on two channels, two
\* bodies, an asset for macOS or for Windows
NutsReleases ==
    [tag_name : {V100, V110, V200Beta1}, draft : {FALSE}, body : {<<"a">>, <<"b">>},
     published_at : {1}, assets : {<< <<"app.dmg">> >>, << <<"app.exe">> >>}]

T090 == <<"0", ".", "9", ".", "0">>
T110Beta == <<"1", ".", "1", ".", "0", "-", "b", "e", "t", "a">>
DashB == <<"-", "b">>

\* req.params of /update/:platform/:version and
\* /update/channel/:channel/:platform/:version
UpdatePlatforms == {<<"osx">>, <<"win">>}
UpdateChannels == {Undefined, Beta}
ClientVersions == {T090, T100, V100, T110Beta, DashB}

NoManifest == NoRequest.manifest

\* notes.merge(versions, {includeTag: false}): the notes of the Versions,
\* in their order (lib/utils/notes.js is not part of the sources at hand;
\* modelled from section 4.5 of the specification)
RECURSIVE merge(_)
merge(versions) ==
    IF versions = <<>> THEN <<>>
    ELSE Head(versions).notes \o merge(Tail(versions))

\* the second callback of onUpdate with latest.tag == tag left out: an
\* update is offered whenever a Version qualifies
UpdateResponseAlwaysOffers(versions, tag, channel) ==
    IF versions = <<>>
    THEN [status |-> 204, manifest |-> NoManifest]
    ELSE [status |-> 200,
          manifest |-> [name |-> Head(versions).tag,
                        notes |-> merge(IF Len(versions) = 1 THEN <<versions[1]>>
                                        ELSE SubSeq(versions, 1, Len(versions) - 1)),
                        channel |-> channel,
                        pub_date |-> Head(versions).published_at]]

\* the second callback of onUpdate: what it sends for the Versions filter()
\* resolved to.  The url of the manifest is built from the request alone
\* and is left out
UpdateResponse(versions, tag, channel) ==
    IF versions = <<>> \/ Head(versions).tag = tag
    THEN [status |-> 204, manifest |-> NoManifest]
    ELSE [status |-> 200,
          manifest |-> [name |-> Head(versions).tag,
                        notes |-> merge(IF Len(versions) = 1 THEN <<versions[1]>>
                                        ELSE SubSeq(versions, 1, Len(versions) - 1)),
                        channel |-> channel,
                        pub_date |-> Head(versions).published_at]]

\* the options onUpdate passes to versions.filter
UpdateOpts ==
    [omitted |-> FALSE, tag |-> <<">", "=">> \o req.tag, platform |-> req.platform,
     channel |-> req.channel]

Init ==
    /\ releases \in SeqUpTo(NutsReleases, MaxCatalog)
    /\ tagNameFilter = Undefined
    /\ call = NoCall
    /\ NutsIdle

\* the router calls onUpdate: the synchronous part of the handler
OnUpdate ==
    /\ req.pc = "idle"
    /\ \E platform \in UpdatePlatforms, channel \in UpdateChannels,
          version \in ClientVersions :
        req' = [NoRequest EXCEPT
                   !.handler = "onUpdate",
                   !.pc = "start",
                   !.platform = platform,
                   !.channel = IF Truthy(channel) THEN channel ELSE Star,
                   !.version = version,
                   !.tag = Split(version, "-")[1]]
    /\ UNCHANGED <<releases, tagNameFilter, call, preFetch, cache, promises,
                   backendInits, callers>>

\* the first callback of onUpdate: the parameters are checked, the platform
\* is detected and versions.filter is called; a throw goes to next
UpdateQuery ==
    /\ req.handler = "onUpdate"
    /\ req.pc = "start"
    /\ req' = IF ~Truthy(req.tag)
              THEN [req EXCEPT !.pc = "done", !.error = <<"Requires version">>,
                               !.nexts = @ + 1]
              ELSE IF ~Truthy(req.platform)
              THEN [req EXCEPT !.pc = "done", !.error = <<"Requires platform">>,
                               !.nexts = @ + 1]
              ELSE [req EXCEPT !.pc = "filtering", !.platform = detect(req.platform)]
    /\ UNCHANGED <<releases, tagNameFilter, call, preFetch, cache, promises,
                   backendInits, callers>>

\* backend.releases() settles: filter() resolves and the second callback
\* sends the response, or filter() rejects and the error goes to next
UpdateRespond ==
    /\ req.handler = "onUpdate"
    /\ req.pc = "filtering"
    /\ \E backendOk \in BOOLEAN :
        LET filtered == FilterOutcome(backendOk, releases, tagNameFilter, UpdateOpts)
            sent == UpdateResponse(filtered.versions, req.tag, req.channel)
        IN req' = IF filtered.status = "rejected"
                  THEN [req EXCEPT !.pc = "done", !.error = filtered.error,
                                   !.nexts = @ + 1]
                  ELSE [req EXCEPT !.pc = "done", !.status = sent.status,
                                   !.manifest = sent.manifest,
                                   !.responses = @ + 1]
    /\ UNCHANGED <<releases, tagNameFilter, call, preFetch, cache, promises,
                   backendInits, callers>>

\* the request is over; the handler keeps nothing of it
RequestDone ==
    /\ req.pc = "done"
    /\ req' = NoRequest
    /\ UNCHANGED <<releases, tagNameFilter, call, preFetch, cache, promises,
                   backendInits, callers>>

Next == OnUpdate \/ UpdateQuery \/ UpdateRespond \/ RequestDone

Spec == Init /\ [][Next]_vars

\* an update request that got past its parameter check and whose
\* backend.releases() succeeded
UpdateAnswered ==
    /\ req.handler = "onUpdate"
    /\ req.pc = "done"
    /\ Truthy(req.tag)
    /\ req.error # <<"BackendError">>

\* the Versions of list() that match the platform and the channel of the
\* request and whose tag is at least the client's
Qualifying ==
    SelectSeq(Listed, LAMBDA v :
        /\ req.channel = Star \/ v.channel = req.channel
        /\ \/ req.platform = Null
           \/ \E a \in 1..Len(v.platforms) : satisfies(req.platform, <<v.platforms[a].type>>)
        /\ IsPartial(req.tag)
        /\ SemverValid(v.tag)
        /\ CompareMain(SemverParse(v.tag), PartialLow(req.tag)) >= 0)

\* C9: when the newest qualifying Version has the client's tag, onUpdate
\* answers 204 with no manifest and no error; when its tag differs,
\* onUpdate answers with a manifest named after that tag.
C9_NoUpdateOrManifest ==
    (UpdateAnswered /\ Qualifying # <<>>) =>
        IF Head(Qualifying).tag = req.tag
        THEN req.status = 204 /\ req.manifest = NoManifest /\ req.error = <<>>
        ELSE /\ req.status = 200
             /\ req.manifest.name = Head(Qualifying).tag
             /\ req.error = <<>>

\* a client on the newest of two qualifying Versions of its channel was
\* told there is no update
C9_Witness ==
    /\ UpdateAnswered
    /\ req.version = T110Beta
    /\ Len(Listed) = 2
    /\ Len(Qualifying) = 1
    /\ Head(Qualifying).tag = req.tag
    /\ req.status = 204

\* the qualifying Versions strictly newer than the client's
StrictlyNewer ==
    SelectSeq(Qualifying, LAMBDA v :
        CompareMain(SemverParse(v.tag), PartialLow(req.tag)) > 0)

\* C10: the notes of an offered update are the merged notes of exactly the
\* qualifying Versions strictly newer than the client's, newest first.
C10_NotesOfNewerVersions ==
    (UpdateAnswered /\ req.status = 200) => req.manifest.notes = merge(StrictlyNewer)

(* ---------------------------------------------------------------------- *)
(* SpecHandlers: the route handlers onDownload, onUpdate, onUpdateWin and *)
(* onElectronUpdater, one request at a time, over the memoized init       *)
(* ---------------------------------------------------------------------- *)

T110 == <<"1", ".", "1", ".", "0">>
T200 == <<"2", ".", "0", ".", "0">>
AJson == <<"a", ".", "j", "s", "o", "n">>
ATxt == <<"a", ".", "t", "x", "t">>
\* a file name no release holds
OtherZip == <<"b", ".", "z", "i", "p">>

\* the catalogs behind the handlers: empty, a release for macOS, a release
\* for Windows with and without a RELEASES file, and a catalog list()
\* cannot sort
HandlerCatalogs ==
    LET R(t, a) == [tag_name |-> t, draft |-> FALSE, body |-> <<"n">>,
                    published_at |-> 1, assets |-> a]
    IN {<<>>,
        <<R(V110, << <<"app.dmg">>, MacYml, OsxZip >>)>>,
        <<R(V110, << <<"app.exe">>, <<"RELEASES">> >>)>>,
        <<R(V110, << <<"app.exe">> >>)>>,
        <<R(AppV, << <<"app.dmg">> >>), R(V100, << <<"app.dmg">> >>)>>}

InitHandlers ==
    /\ releases \in HandlerCatalogs
    /\ tagNameFilter = Undefined
    /\ call = NoCall
    /\ preFetch \in BOOLEAN
    /\ cache = 0
    /\ promises = <<>>
    /\ backendInits = 0
    /\ callers = <<>>
    /\ req = NoRequest

\* next(error): the handler is over
CallNext(r, error) == [r EXCEPT !.pc = "done", !.error = error, !.nexts = @ + 1]

\* _.find(platforms, {filename: filename}): the first asset of that name,
\* as a sequence of at most one asset
Find(platforms, filename) ==
    LET found == SelectSeq(platforms, LAMBDA pl : pl.filename = filename)
    IN IF found = <<>> THEN <<>> ELSE <<Head(found)>>

\* platforms.resolve(version, platform, {wanted: null}): the first asset of
\* the Version that matches the platform, as a sequence of at most one asset
\* (lib/utils/platforms.js is not part of the sources at hand; modelled
\* from section 4.3 of the specification)
platformsResolve(version, platform) ==
    LET matching == SelectSeq(version.platforms,
                              LAMBDA pl : satisfies(platform, <<pl.type>>))
    IN IF matching = <<>> THEN <<>> ELSE <<Head(matching)>>

\* req.params of the download routes: /, /download/channel/:channel/:platform?,
\* /download/version/:tag/:platform?, /download/:tag/:filename and
\* /download/:platform?
DownloadParams ==
    [channel : {Undefined}, platform : {Undefined, <<"osx">>}, tag : {Undefined},
     filename : {Undefined}]
    \cup
    [channel : {Beta}, platform : {Undefined, <<"osx">>}, tag : {Undefined},
     filename : {Undefined}]
    \cup
    [channel : {Undefined}, platform : {Undefined, <<"osx">>}, tag : {T100, T110},
     filename : {Undefined}]
    \cup
    [channel : {Undefined}, platform : {Undefined}, tag : {T110},
     filename : {<<"app.dmg">>, OtherZip}]

\* the router calls onDownload: the synchronous part of the handler, which
\* ends in next(error) or in versions.resolve
OnDownload ==
    /\ req.pc = "idle"
    /\ \E params \in DownloadParams, isMac \in BOOLEAN :
        LET tag == IF Truthy(params.tag) THEN params.tag ELSE Latest
            platform == IF Truthy(params.filename) THEN Null
                        ELSE IF ~Truthy(params.platform) /\ isMac THEN <<"osx">>
                        ELSE params.platform
            channel == IF tag # Latest THEN Star ELSE params.channel
            r == [NoRequest EXCEPT !.handler = "onDownload", !.platform = platform,
                                   !.channel = channel, !.tag = tag,
                                   !.filename = params.filename]
        IN req' = IF ~Truthy(params.filename) /\ ~Truthy(platform)
                  THEN CallNext(r, <<"No platform specified">>)
                  ELSE [r EXCEPT !.pc = "resolving"]
    /\ UNCHANGED <<releases, tagNameFilter, call, preFetch, cache, promises,
                   backendInits, callers>>

\* resolve() settles: a rejection goes to next; otherwise the callback of
\* onDownload picks the asset and calls serveAsset, which calls init()
DownloadResolved ==
    /\ req.handler = "onDownload"
    /\ req.pc = "resolving"
    /\ \E backendOk \in BOOLEAN :
        LET resolved == ResolveOutcome(backendOk, releases, tagNameFilter,
                            [omitted |-> FALSE, tag |-> req.tag,
                             platform |-> req.platform, channel |-> req.channel])
            version == Head(resolved.versions)
            asset == IF Truthy(req.filename)
                     THEN Find(version.platforms, req.filename)
                     ELSE platformsResolve(version, req.platform)
        IN IF resolved.status = "rejected"
           THEN /\ req' = CallNext(req, resolved.error)
                /\ UNCHANGED <<cache, promises>>
           ELSE IF asset = <<>>
           THEN /\ req' = CallNext(req, <<"No download available">>)
                /\ UNCHANGED <<cache, promises>>
           ELSE /\ req' = [req EXCEPT !.pc = "serveInit"]
                /\ cache' = init(cache, promises).cache
                /\ promises' = init(cache, promises).promises
    /\ UNCHANGED <<releases, tagNameFilter, call, preFetch, backendInits, callers>>

\* where a rejection of the promise of serveAsset ends: onDownload returns
\* the promise into a chain that ends in .fail(next); onElectronUpdater
\* returns it into its inner chain, which the outer chain does not return
\* and on which nothing handles a rejection
ServeAssetRejected(r, error) ==
    IF r.handler = "onDownload" THEN CallNext(r, error)
    ELSE [r EXCEPT !.pc = "done", !.unhandled = error]

\* the callback serveAsset chained on init() runs once init has settled:
\* performQ('download', ...) starts backend.serveAsset
ServeAssetInit ==
    /\ req.pc = "serveInit"
    /\ Settled(cache)
    /\ req' = IF promises[cache].stage = "rejected"
              THEN ServeAssetRejected(req, <<"InitError">>)
              ELSE [req EXCEPT !.pc = "serving"]
    /\ UNCHANGED <<releases, tagNameFilter, call, preFetch, cache, promises,
                   backendInits, callers>>

\* backend.serveAsset settles: it has sent the asset as the response, or it
\* failed.  performQ resolves to undefined, which onElectronUpdater takes
\* for the content to send
BackendServeAsset ==
    /\ req.pc = "serving"
    /\ \E ok \in BOOLEAN :
        req' = IF ~ok THEN ServeAssetRejected(req, <<"BackendError">>)
               ELSE IF req.handler = "onDownload"
               THEN [req EXCEPT !.pc = "done", !.responses = @ + 1]
               ELSE [req EXCEPT !.pc = "electronSend", !.responses = @ + 1,
                                !.content = Undefined]
    /\ UNCHANGED <<releases, tagNameFilter, call, preFetch, cache, promises,
                   backendInits, callers>>

\* req.params.version of the RELEASES routes
WinVersions == {T100, T200}

\* the router calls onUpdateWin: the synchronous part, which calls init()
OnUpdateWin ==
    /\ req.pc = "idle"
    /\ \E channel \in UpdateChannels, version \in WinVersions :
        req' = [NoRequest EXCEPT
                   !.handler = "onUpdateWin",
                   !.pc = "winInit",
                   !.platform = <<"win_32">>,
                   !.channel = IF Truthy(channel) THEN channel ELSE Star,
                   !.version = version,
                   !.tag = version]
    /\ cache' = init(cache, promises).cache
    /\ promises' = init(cache, promises).promises
    /\ UNCHANGED <<releases, tagNameFilter, call, preFetch, backendInits, callers>>

\* the first callback of onUpdateWin runs once init has settled: the
\* platform is detected and versions.filter is called
WinQuery ==
    /\ req.handler = "onUpdateWin"
    /\ req.pc = "winInit"
    /\ Settled(cache)
    /\ req' = IF promises[cache].stage = "rejected"
              THEN CallNext(req, <<"InitError">>)
              ELSE [req EXCEPT !.pc = "filtering", !.platform = detect(req.platform)]
    /\ UNCHANGED <<releases, tagNameFilter, call, preFetch, cache, promises,
                   backendInits, callers>>

\* filter() settles: the second callback of onUpdateWin looks for the
\* RELEASES file of the newest Version and starts backend.readAsset
WinFiltered ==
    /\ req.handler = "onUpdateWin"
    /\ req.pc = "filtering"
    /\ \E backendOk \in BOOLEAN :
        LET filtered == FilterOutcome(backendOk, releases, tagNameFilter,
                            [omitted |-> FALSE, tag |-> <<">", "=">> \o req.tag,
                             platform |-> req.platform, channel |-> req.channel])
        IN req' = IF filtered.status = "rejected"
                  THEN CallNext(req, filtered.error)
                  ELSE IF filtered.versions = <<>>
                  THEN CallNext(req, <<"Version not found">>)
                  ELSE IF Find(Head(filtered.versions).platforms, <<"RELEASES">>) = <<>>
                  THEN CallNext(req, <<"File not found">>)
                  ELSE [req EXCEPT !.pc = "reading"]
    /\ UNCHANGED <<releases, tagNameFilter, call, preFetch, cache, promises,
                   backendInits, callers>>

\* what backend.readAsset settles to for a RELEASES file: a failure, a text
\* winReleases.parse accepts, or one with a malformed line, on which it
\* throws (lib/utils/win-releases.js is not part of the sources at hand;
\* modelled from section 4.4 of the specification)
ReleasesFiles == {"rejected", "wellformed", "malformed"}

\* backend.readAsset settles: the file is parsed, rewritten and sent; a
\* failure and a throw of the parser go to next
WinRead ==
    /\ req.handler = "onUpdateWin"
    /\ req.pc = "reading"
    /\ \E file \in ReleasesFiles :
        req' = IF file = "rejected" THEN CallNext(req, <<"BackendError">>)
               ELSE IF file = "malformed" THEN CallNext(req, <<"ParseError">>)
               ELSE [req EXCEPT !.pc = "done", !.status = 200, !.responses = @ + 1]
    /\ UNCHANGED <<releases, tagNameFilter, call, preFetch, cache, promises,
                   backendInits, callers>>

\* req.params of /electron-updater/:channel/:platform/:filename
ElectronChannels == {Stable, Beta}
ElectronFilenames == {AJson, MacYml, OsxZip, OtherZip, ATxt}

\* the router calls onElectronUpdater: the synchronous part of the handler
OnElectronUpdater ==
    /\ req.pc = "idle"
    /\ \E platform \in UpdatePlatforms, channel \in ElectronChannels,
          filename \in ElectronFilenames :
        req' = [NoRequest EXCEPT
                   !.handler = "onElectronUpdater",
                   !.pc = "start",
                   !.platform = platform,
                   !.channel = IF Truthy(channel) THEN channel ELSE Star,
                   !.filename = filename]
    /\ UNCHANGED <<releases, tagNameFilter, call, preFetch, cache, promises,
                   backendInits, callers>>

\* the first callback of onElectronUpdater: the platform is checked and
\* detected and versions.resolve is called
ElectronQuery ==
    /\ req.handler = "onElectronUpdater"
    /\ req.pc = "start"
    /\ req' = IF ~Truthy(req.platform)
              THEN CallNext(req, <<"Requires platform">>)
              ELSE [req EXCEPT !.pc = "resolving", !.platform = detect(req.platform)]
    /\ UNCHANGED <<releases, tagNameFilter, call, preFetch, cache, promises,
                   backendInits, callers>>

\* _.last(filename.split('.'))
ContentType(filename) == Split(filename, ".")[Len(Split(filename, "."))]

\* resolve() settles: a rejection goes to next.  Otherwise the second
\* callback starts the inner chain and returns nothing, so the outer chain
\* is fulfilled and .fail(next) sees nothing of the inner one; the first
\* callback of the inner chain picks the content by the file extension
ElectronResolved ==
    /\ req.handler = "onElectronUpdater"
    /\ req.pc = "resolving"
    /\ \E backendOk \in BOOLEAN :
        LET resolved == ResolveOutcome(backendOk, releases, tagNameFilter,
                            [omitted |-> FALSE, tag |-> Undefined,
                             platform |-> req.platform, channel |-> req.channel])
            latest == Head(resolved.versions)
            contentType == ContentType(req.filename)
            asset == Find(latest.platforms, req.filename)
        IN IF resolved.status = "rejected"
           THEN /\ req' = CallNext(req, resolved.error)
                /\ UNCHANGED <<cache, promises>>
           ELSE IF contentType = <<"j", "s", "o", "n">>
           THEN /\ req' = [req EXCEPT !.pc = "electronSend", !.content = <<"manifest">>]
                /\ UNCHANGED <<cache, promises>>
           ELSE IF contentType = <<"y", "m", "l">>
           THEN /\ req' = IF asset = <<>>
                          THEN [req EXCEPT !.pc = "electronSend", !.content = Null]
                          ELSE [req EXCEPT !.pc = "reading"]
                /\ UNCHANGED <<cache, promises>>
           ELSE IF contentType \in {<<"e", "x", "e">>, <<"z", "i", "p">>,
                                    <<"b", "l", "o", "c", "k", "m", "a", "p">>}
           THEN IF asset = <<>>
                THEN /\ req' = [req EXCEPT !.pc = "electronSend", !.content = Null]
                     /\ UNCHANGED <<cache, promises>>
                ELSE /\ req' = [req EXCEPT !.pc = "serveInit"]
                     /\ cache' = init(cache, promises).cache
                     /\ promises' = init(cache, promises).promises
           ELSE /\ req' = [req EXCEPT !.pc = "electronSend", !.content = <<>>]
                /\ UNCHANGED <<cache, promises>>
    /\ UNCHANGED <<releases, tagNameFilter, call, preFetch, backendInits, callers>>

\* what backend.readAsset settles to for a yml file: a failure, a text, or
\* an empty file
YmlFiles == {"rejected", "text", "empty"}

\* backend.readAsset settles inside the inner chain: the text is the
\* content to send; a failure rejects the inner chain, which nothing handles
ElectronRead ==
    /\ req.handler = "onElectronUpdater"
    /\ req.pc = "reading"
    /\ \E file \in YmlFiles :
        req' = IF file = "rejected"
               THEN [req EXCEPT !.pc = "done", !.unhandled = <<"BackendError">>]
               ELSE [req EXCEPT !.pc = "electronSend",
                                !.content = IF file = "text" THEN <<"yml">> ELSE <<>>]
    /\ UNCHANGED <<releases, tagNameFilter, call, preFetch, cache, promises,
                   backendInits, callers>>

\* the last callback of the inner chain: the content is sent, or 404
ElectronSend ==
    /\ req.handler = "onElectronUpdater"
    /\ req.pc = "electronSend"
    /\ req' = [req EXCEPT !.pc = "done",
                          !.status = IF Truthy(req.content) THEN 200 ELSE 404,
                          !.responses = @ + 1]
    /\ UNCHANGED <<releases, tagNameFilter, call, preFetch, cache, promises,
                   backendInits, callers>>

\* the steps the event loop takes by itself: callbacks of settled promises
\* and backend calls that settle
HandlerProgress ==
    \/ DownloadResolved
    \/ ServeAssetInit
    \/ BackendServeAsset
    \/ UpdateQuery
    \/ UpdateRespond
    \/ WinQuery
    \/ WinFiltered
    \/ WinRead
    \/ ElectronQuery
    \/ ElectronResolved
    \/ ElectronRead
    \/ ElectronSend
    \/ \E p \in 1..Len(promises) : StartBackendInit(p)
    \/ \E p \in 1..Len(promises) : BackendInitSettles(p)
    \/ \E p \in 1..Len(promises) : PrefetchSettles(p)

NextHandlers ==
    \/ OnDownload
    \/ OnUpdate
    \/ OnUpdateWin
    \/ OnElectronUpdater
    \/ HandlerProgress
    \/ RequestDone

\* every scheduled callback runs and every backend call settles
SpecHandlers == InitHandlers /\ [][NextHandlers]_vars /\ WF_vars(HandlerProgress)

\* the terminal outcomes of the request so far
Outcomes == req.responses + req.nexts

\* C12: every invocation of onDownload, onUpdate, onUpdateWin and
\* onElectronUpdater, given that every backend call settles, comes to
\* exactly one terminal outcome: one response sent (by the handler or by
\* backend.serveAsset) or one call of next, never both, never two
\* responses, and never none.
C12_ExactlyOneOutcome ==
    /\ [](Outcomes <= 1)
    /\ [](req.pc = "done" => Outcomes = 1)
    /\ (req.pc # "idle") ~> (req.pc = "done" /\ Outcomes = 1)

=============================================================================
